---- MODULE Spec2Model ----
(***************************************************************************)
(* Book-cipher codec of The-Book-Code.                                     *)
(*                                                                         *)
(* src/api/ocr.js holds three revisions of the cipher service:             *)
(*   engine "WO"     lines  75-253  modes WORD (Line-Word) and OTTENDORF   *)
(*                                  (Line-Word-Char), strict keys          *)
(*   engine "STRICT" lines 260-432  modes PLP and DPLP, strict keys        *)
(*   engine "ACCENT" lines 453-624  modes PLP and DPLP, accent-insensitive *)
(* A text is a sequence of one-character strings.  A JavaScript number is  *)
(* a record [nan, val]; a call that throws yields a record with threw =    *)
(* TRUE.                                                                   *)
(***************************************************************************)
EXTENDS Integers, Sequences, FiniteSets, TLC

VARIABLES engine, mode, bookText, inputText, dateString, pageNumber,
          bookIndex, random, encoded, decoded, pc,
          indexMode,     \* the mode argument of the indexBook call
          indexText,     \* the text argument of the indexBook call
          isEncoding, result, apiKeyReady, isAnalyzingImage,
          extraction,    \* the promise of extractTextFromImage
          captured,      \* bookText in the closure of processImageFile
          geminiKey, image, credentials, timer, response, visionError,
          calls,         \* the endpoints called, in order
          returned       \* what extractTextFromImage returned or threw

\* The state of one call of extractTextFromImage and of the /api/ocr server.
ocrVars == <<geminiKey, image, credentials, timer, response, visionError,
             calls, returned>>

vars == <<engine, mode, bookText, inputText, dateString, pageNumber,
          bookIndex, random, encoded, decoded, pc, indexMode, indexText,
          isEncoding, result, apiKeyReady, isAnalyzingImage, extraction,
          captured, ocrVars>>

\* The variables the codec's own steps leave alone.
others == <<indexMode, indexText, isEncoding, result, apiKeyReady,
            isAnalyzingImage, extraction, captured, ocrVars>>

----------------------------------------------------------------------------
(* Characters and the character classes the regular expressions name.      *)

LowerAZ == <<"a","b","c","d","e","f","g","h","i","j","k","l","m",
             "n","o","p","q","r","s","t","u","v","w","x","y","z">>
UpperAZ == <<"A","B","C","D","E","F","G","H","I","J","K","L","M",
             "N","O","P","Q","R","S","T","U","V","W","X","Y","Z">>
Digits == <<"0","1","2","3","4","5","6","7","8","9">>
\* Letters of the range À-ÿ used here, with their NFD base letters.
LowerAcc == <<"á","ã","ç","ó">>
UpperAcc == <<"Á","Ã","Ç","Ó">>
LowerAccBase == <<"a","a","c","o">>
UpperAccBase == <<"A","A","C","O">>

Range(s) == {s[i] : i \in DOMAIN s}
IndexIn(c, s) == CHOOSE i \in DOMAIN s : s[i] = c

\* /\s/
IsSpace(c) == c \in {" ", "\t", "\n", "\r"}
\* /[0-9]/
IsDigit(c) == c \in Range(Digits)
\* /[À-ÿ]/
IsLatin1(c) == c \in Range(LowerAcc) \cup Range(UpperAcc)
\* /\w/
IsWordChar(c) == c \in Range(LowerAZ) \cup Range(UpperAZ) \cup Range(Digits) \cup {"_"}
\* /[\wÀ-ÿ]/
IsStrictKeyChar(c) == IsWordChar(c) \/ IsLatin1(c)
\* /[a-z0-9]/
IsLowerAlnum(c) == c \in Range(LowerAZ) \cup Range(Digits)
\* /[a-zA-ZÀ-ÿ0-9]/
IsDisplayAlnum(c) == c \in Range(LowerAZ) \cup Range(UpperAZ) \cup Range(Digits) \/ IsLatin1(c)
\* /[a-z0-9À-ÿ]/
IsOttendorfChar(c) == IsLowerAlnum(c) \/ IsLatin1(c)

\* String.prototype.toLowerCase / toUpperCase on one character.
LowerChar(c) ==
  IF c \in Range(UpperAZ) THEN LowerAZ[IndexIn(c, UpperAZ)]
  ELSE IF c \in Range(UpperAcc) THEN LowerAcc[IndexIn(c, UpperAcc)]
  ELSE c
UpperChar(c) ==
  IF c \in Range(LowerAZ) THEN UpperAZ[IndexIn(c, LowerAZ)]
  ELSE IF c \in Range(LowerAcc) THEN UpperAcc[IndexIn(c, LowerAcc)]
  ELSE c
\* normalize("NFD") followed by the removal of U+0300-U+036F.
FoldChar(c) ==
  IF c \in Range(LowerAcc) THEN LowerAccBase[IndexIn(c, LowerAcc)]
  ELSE IF c \in Range(UpperAcc) THEN UpperAccBase[IndexIn(c, UpperAcc)]
  ELSE c

----------------------------------------------------------------------------
(* String operations.                                                      *)

MapLower(s) == [i \in DOMAIN s |-> LowerChar(s[i])]
toUpperCase(s) == [i \in DOMAIN s |-> UpperChar(s[i])]
MapFold(s) == [i \in DOMAIN s |-> FoldChar(s[i])]

RECURSIVE Concat(_)
Concat(ss) == IF ss = <<>> THEN <<>> ELSE Head(ss) \o Concat(Tail(ss))

RECURSIVE Join(_, _)
Join(ss, sep) ==
  IF ss = <<>> THEN <<>>
  ELSE IF Len(ss) = 1 THEN ss[1]
  ELSE ss[1] \o sep \o Join(Tail(ss), sep)

\* String.prototype.trim
RECURSIVE TrimLeft(_)
TrimLeft(s) == IF s # <<>> /\ IsSpace(Head(s)) THEN TrimLeft(Tail(s)) ELSE s
RECURSIVE TrimRight(_)
TrimRight(s) ==
  IF s # <<>> /\ IsSpace(s[Len(s)]) THEN TrimRight(SubSeq(s, 1, Len(s) - 1)) ELSE s
Trim(s) == TrimRight(TrimLeft(s))

\* split(/\r?\n/)
RECURSIVE SplitLinesFrom(_, _, _)
SplitLinesFrom(s, i, cur) ==
  IF i > Len(s) THEN <<cur>>
  ELSE IF s[i] = "\n" THEN <<cur>> \o SplitLinesFrom(s, i + 1, <<>>)
  ELSE IF s[i] = "\r" /\ i < Len(s) /\ s[i + 1] = "\n"
       THEN <<cur>> \o SplitLinesFrom(s, i + 2, <<>>)
  ELSE SplitLinesFrom(s, i + 1, Append(cur, s[i]))
SplitLines(s) == SplitLinesFrom(s, 1, <<>>)

\* split(/\s+/)
RECURSIVE SkipSpace(_, _)
SkipSpace(s, i) == IF i <= Len(s) /\ IsSpace(s[i]) THEN SkipSpace(s, i + 1) ELSE i
RECURSIVE SplitSpaceFrom(_, _, _)
SplitSpaceFrom(s, i, cur) ==
  IF i > Len(s) THEN <<cur>>
  ELSE IF IsSpace(s[i]) THEN <<cur>> \o SplitSpaceFrom(s, SkipSpace(s, i), <<>>)
  ELSE SplitSpaceFrom(s, i + 1, Append(cur, s[i]))
SplitSpace(s) == SplitSpaceFrom(s, 1, <<>>)

\* split(/\n\s*\n/): a match starts at a "\n" and, \s* being greedy, ends at the
\* last "\n" of the whitespace run that follows it.
ParagraphBreakEnd(s, i) ==
  LET ends == {j \in (i + 1)..Len(s) :
                 s[j] = "\n" /\ \A k \in (i + 1)..(j - 1) : IsSpace(s[k])}
  IN IF ends = {} THEN 0 ELSE CHOOSE j \in ends : \A k \in ends : k <= j
RECURSIVE SplitParagraphsFrom(_, _, _)
SplitParagraphsFrom(s, i, cur) ==
  IF i > Len(s) THEN <<cur>>
  ELSE IF s[i] = "\n" /\ ParagraphBreakEnd(s, i) # 0
       THEN <<cur>> \o SplitParagraphsFrom(s, ParagraphBreakEnd(s, i) + 1, <<>>)
  ELSE SplitParagraphsFrom(s, i + 1, Append(cur, s[i]))
SplitParagraphs(s) == SplitParagraphsFrom(s, 1, <<>>)

\* split(':')
RECURSIVE SplitColonFrom(_, _, _)
SplitColonFrom(s, i, cur) ==
  IF i > Len(s) THEN <<cur>>
  ELSE IF s[i] = ":" THEN <<cur>> \o SplitColonFrom(s, i + 1, <<>>)
  ELSE SplitColonFrom(s, i + 1, Append(cur, s[i]))
SplitColon(s) == SplitColonFrom(s, 1, <<>>)

\* Numbers: a JavaScript number is [nan, val].
Num(v) == [nan |-> FALSE, val |-> v]
NaN == [nan |-> TRUE, val |-> 0]
isNaN(n) == n.nan
\* a < b and a > b are false when either side is NaN.
NumLess(a, b) == ~a.nan /\ ~b.nan /\ a.val < b.val
NumGreater(a, b) == ~a.nan /\ ~b.nan /\ a.val > b.val

\* parseInt(s, 10): leading whitespace, an optional sign, the longest prefix of
\* digits; NaN when there is no digit.
RECURSIVE DigitsValue(_, _, _)
DigitsValue(s, i, acc) ==
  IF i <= Len(s) /\ IsDigit(s[i])
  THEN DigitsValue(s, i + 1, 10 * acc + (IndexIn(s[i], Digits) - 1))
  ELSE acc
parseInt(str) ==
  LET s == TrimLeft(str)
      signed == s # <<>> /\ s[1] \in {"-", "+"}
      d == IF signed THEN Tail(s) ELSE s
  IN IF d = <<>> \/ ~IsDigit(d[1]) THEN NaN
     ELSE IF signed /\ s[1] = "-" THEN Num(0 - DigitsValue(d, 1, 0))
     ELSE Num(DigitsValue(d, 1, 0))

\* `${n}` for an integer n.
RECURSIVE NatToString(_)
NatToString(n) ==
  IF n < 10 THEN <<Digits[n + 1]>>
  ELSE Append(NatToString(n \div 10), Digits[(n % 10) + 1])
NumberToString(n) == IF n < 0 THEN <<"-">> \o NatToString(0 - n) ELSE NatToString(n)

startsWith(s, c) == s # <<>> /\ s[1] = c
endsWith(s, c) == s # <<>> /\ s[Len(s)] = c
includes(s, c) == \E i \in DOMAIN s : s[i] = c
IsBracketed(token) == startsWith(token, "[") /\ endsWith(token, "]")
\* token.slice(1, -1)
Slice1(token) == SubSeq(token, 2, Len(token) - 1)

----------------------------------------------------------------------------
(* Keys and the index (a JavaScript object used as a map).                 *)

\* A key that keeps punctuation (a variant the code does not have).
LowerCaseOnly(str) == MapLower(str)
\* ocr.js:93, 133, 286, 320: replace(/[^\wÀ-ÿ]/g, '').toLowerCase()
cleanWordKey(str) == MapLower(SelectSeq(str, IsStrictKeyChar))
\* A normalizeKey that keeps accents (a variant the code does not have).
KeepingAccents(str) == MapLower(SelectSeq(str, IsStrictKeyChar))
\* ocr.js:441 normalizeKey
normalizeKey(str) == SelectSeq(MapLower(MapFold(str)), IsLowerAlnum)
\* ocr.js:237, 422, 490: replace(/[^\wÀ-ÿ]/g, '')
stripPunctuation(str) == SelectSeq(str, IsStrictKeyChar)
\* ocr.js:614: replace(/^[^a-zA-ZÀ-ÿ0-9]+|[^a-zA-ZÀ-ÿ0-9]+$/g, '')
RECURSIVE TrimDisplayLeft(_)
TrimDisplayLeft(s) ==
  IF s # <<>> /\ ~IsDisplayAlnum(Head(s)) THEN TrimDisplayLeft(Tail(s)) ELSE s
RECURSIVE TrimDisplayRight(_)
TrimDisplayRight(s) ==
  IF s # <<>> /\ ~IsDisplayAlnum(s[Len(s)])
  THEN TrimDisplayRight(SubSeq(s, 1, Len(s) - 1)) ELSE s
trimDisplay(str) == TrimDisplayRight(TrimDisplayLeft(str))

\* The key an engine looks a word up by.
KeyOf(e, str) == IF e = "ACCENT" THEN normalizeKey(str) ELSE cleanWordKey(str)
\* The text an engine stores in a location's content field (word modes).
ContentOf(e, rawWord) ==
  IF e = "ACCENT" THEN stripPunctuation(rawWord) ELSE cleanWordKey(rawWord)

\* The lower-case-only property names every object inherits from
\* Object.prototype: index[key] is truthy for them on an empty object.
ProtoKeys == {<<"c","o","n","s","t","r","u","c","t","o","r">>,
              <<"_","_","p","r","o","t","o","_","_">>}

EmptyIndex == [threw |-> FALSE, map |-> <<>>]
\* if (!index[key]) index[key] = []; index[key].push(loc)
\* For an inherited property the test is false and push is not a function.
IndexPush(idx, key, loc) ==
  IF idx.threw THEN idx
  ELSE IF key \in DOMAIN idx.map THEN [idx EXCEPT !.map[key] = Append(@, loc)]
  ELSE IF key \in ProtoKeys THEN [idx EXCEPT !.threw = TRUE]
  ELSE [idx EXCEPT !.map = (key :> <<loc>>) @@ @]

\* ocr.js:104-110: every character of the clean word, OTTENDORF mode.
RECURSIVE IndexChars(_, _, _, _, _)
IndexChars(idx, cleanWord, c, lineNum, wordNum) ==
  IF c > Len(cleanWord) THEN idx
  ELSE IndexChars(
         IndexPush(idx, <<LowerChar(cleanWord[c])>>,
                   [line |-> lineNum, word |-> wordNum, char |-> c,
                    content |-> <<cleanWord[c]>>]),
         cleanWord, c + 1, lineNum, wordNum)

\* An index that keeps words with an empty key (a variant the code does not have).
IndexesEveryWord(key) == FALSE
\* if (!cleanWord) return / if (!key) return: ocr.js:96, 288, 481.
SkipsWord(key) == key = <<>>

\* ocr.js:88-112: the words of one line, engine WO.
RECURSIVE IndexWordsWO(_, _, _, _, _)
IndexWordsWO(idx, words, w, lineNum, m) ==
  IF w > Len(words) THEN idx
  ELSE LET rawWord == words[w]
           cleanWord == cleanWordKey(rawWord)
           next == IF rawWord = <<>> THEN idx
                   ELSE IF m = "WORD"
                        THEN IF SkipsWord(cleanWord) THEN idx
                             ELSE IndexPush(idx, cleanWord,
                                    [line |-> lineNum, word |-> w, content |-> cleanWord])
                   ELSE IF m = "OTTENDORF"
                        THEN IndexChars(idx, cleanWord, 1, lineNum, w)
                   ELSE idx
       IN IndexWordsWO(next, words, w + 1, lineNum, m)

\* ocr.js:79-113
RECURSIVE IndexLinesWO(_, _, _, _)
IndexLinesWO(idx, lines, l, m) ==
  IF l > Len(lines) THEN idx
  ELSE IndexLinesWO(IndexWordsWO(idx, SplitSpace(Trim(lines[l])), 1, l, m),
                    lines, l + 1, m)

\* ocr.js:281-299, 473-492: the words of one line, engines STRICT and ACCENT.
RECURSIVE IndexWordsPLP(_, _, _, _, _, _)
IndexWordsPLP(idx, words, w, paragraphNum, lineNum, e) ==
  IF w > Len(words) THEN idx
  ELSE LET rawWord == words[w]
           key == KeyOf(e, rawWord)
           next == IF rawWord = <<>> THEN idx
                   ELSE IF SkipsWord(key) THEN idx
                   ELSE IndexPush(idx, key,
                          [paragraph |-> paragraphNum, line |-> lineNum, word |-> w,
                           content |-> ContentOf(e, rawWord)])
       IN IndexWordsPLP(next, words, w + 1, paragraphNum, lineNum, e)

\* ocr.js:275-300, 467-493
RECURSIVE IndexLinesPLP(_, _, _, _, _)
IndexLinesPLP(idx, lines, l, paragraphNum, e) ==
  IF l > Len(lines) THEN idx
  ELSE IndexLinesPLP(
         IndexWordsPLP(idx, SplitSpace(Trim(lines[l])), 1, paragraphNum, l, e),
         lines, l + 1, paragraphNum, e)

\* ocr.js:267-301, 459-494
RECURSIVE IndexParagraphs(_, _, _, _)
IndexParagraphs(idx, paragraphs, p, e) ==
  IF p > Len(paragraphs) THEN idx
  ELSE IndexParagraphs(
         IF Trim(paragraphs[p]) = <<>> THEN idx
         ELSE IndexLinesPLP(idx, SplitLines(paragraphs[p]), 1, p, e),
         paragraphs, p + 1, e)

\* An index of the paragraph engines that is empty unless built under
\* Paragraph-Line-Word mode (a variant the code does not have).
indexBookOfModeOnly(e, text, m) ==
  IF e = "WO" THEN IndexLinesWO(EmptyIndex, SplitLines(text), 1, m)
  ELSE IF m # "PLP" THEN EmptyIndex
  ELSE IndexParagraphs(EmptyIndex, SplitParagraphs(text), 1, e)
\* indexBook(text, mode) of engine e.
indexBook(e, text, m) ==
  IF e = "WO" THEN IndexLinesWO(EmptyIndex, SplitLines(text), 1, m)
  ELSE IndexParagraphs(EmptyIndex, SplitParagraphs(text), 1, e)

----------------------------------------------------------------------------
(* encodeMessage.  Math.random is the sequence picks: picks[i] is the       *)
(* position, in the candidate list, of the location drawn for token i.     *)

\* bookIndex[key]: an own array, a property inherited from Object.prototype,
\* or undefined.
Lookup(idx, key) ==
  IF key \in DOMAIN idx.map THEN [kind |-> "array", locs |-> idx.map[key]]
  ELSE IF key \in ProtoKeys THEN [kind |-> "inherited", locs |-> <<>>]
  ELSE [kind |-> "undefined", locs |-> <<>>]

Emit(code) == [threw |-> FALSE, drop |-> FALSE, missing |-> FALSE, code |-> code]
EmitMissing(token) ==
  [threw |-> FALSE, drop |-> FALSE, missing |-> TRUE, code |-> <<"[">> \o token \o <<"]">>]
EmitNull == [threw |-> FALSE, drop |-> TRUE, missing |-> FALSE, code |-> <<>>]
\* locations[...] of an inherited property is undefined; reading a field of it
\* throws a TypeError.
EmitThrow == [threw |-> TRUE, drop |-> FALSE, missing |-> FALSE, code |-> <<>>]

\* The separator of codes.join(...): ocr.js:148, 172, 348, 540.
CodeSeparator(e, m) == IF e = "WO" /\ m # "WORD" THEN <<" ">> ELSE <<" ", " ">>

\* dateString.trim() || "DATA"
DateField(date) == IF Trim(date) = <<>> THEN <<"D","A","T","A">> ELSE Trim(date)

\* The coordinate templates: ocr.js:145, 169, 342 and 534, 339 and 531.
FormatWord(loc) == NumberToString(loc.line) \o <<":">> \o NumberToString(loc.word)
\* `${loc.char}`: the text "undefined" for a location without the field (a
\* location indexed in Line-Word mode).
CharField(loc) ==
  IF "char" \in DOMAIN loc THEN NumberToString(loc.char)
  ELSE <<"u","n","d","e","f","i","n","e","d">>
FormatChar(page, loc) ==
  NumberToString(page) \o <<":">> \o NumberToString(loc.line) \o <<":">>
    \o NumberToString(loc.word) \o <<":">> \o CharField(loc)
FormatPLPWordFirst(loc) ==
  NumberToString(loc.word) \o <<":">> \o NumberToString(loc.line)
    \o <<":">> \o NumberToString(loc.paragraph)
FormatPLP(loc) ==
  NumberToString(loc.paragraph) \o <<":">> \o NumberToString(loc.line)
    \o <<":">> \o NumberToString(loc.word)
FormatDPLP(date, loc) == DateField(date) \o <<":">> \o FormatPLP(loc)

\* A message token whose key is empty: ocr.js:134 (dropped), 323 and 516
\* (returned as it is).
EmptyKeyWO(token) == EmitNull
EmptyKeyPLPBracketed(token) == EmitMissing(token)
EmptyKeyPLP(token) == Emit(token)

\* ocr.js:132-146
EncodeWordWO(token, idx, pick) ==
  LET cleanToken == cleanWordKey(token)
      found == Lookup(idx, cleanToken)
  IN IF cleanToken = <<>> THEN EmptyKeyWO(token)
     ELSE IF found.kind = "undefined" \/ (found.kind = "array" /\ found.locs = <<>>)
          THEN EmitMissing(token)
     ELSE IF found.kind = "inherited" THEN EmitThrow
     ELSE Emit(FormatWord(found.locs[pick]))

\* ocr.js:154-170
EncodeCharWO(char, idx, pick, page) ==
  LET cleanChar == LowerChar(char)
      found == Lookup(idx, <<cleanChar>>)
  IN IF IsSpace(char) THEN Emit(<<"/">>)
     ELSE IF ~IsOttendorfChar(cleanChar) THEN Emit(<<char>>)
     ELSE IF found.kind = "undefined" \/ (found.kind = "array" /\ found.locs = <<>>)
          THEN EmitMissing(<<char>>)
     ELSE IF found.kind = "inherited" THEN EmitThrow
     ELSE Emit(FormatChar(page, found.locs[pick]))

\* ocr.js:318-344, 511-536
EncodeWordPLP(e, m, token, idx, pick, date) ==
  LET key == KeyOf(e, token)
      found == Lookup(idx, key)
  IN IF key = <<>> THEN EmptyKeyPLP(token)
     ELSE IF found.kind = "undefined" \/ (found.kind = "array" /\ found.locs = <<>>)
          THEN EmitMissing(token)
     ELSE IF found.kind = "inherited" THEN EmitThrow
     ELSE IF m = "DPLP" THEN Emit(FormatDPLP(date, found.locs[pick]))
     ELSE Emit(FormatPLP(found.locs[pick]))

\* The tokens encodeMessage maps over: message.split('') in character mode,
\* message.trim().split(/\s+/) otherwise.
MessageTokens(e, m, message) ==
  IF e = "WO" /\ m # "WORD" THEN [i \in DOMAIN message |-> <<message[i]>>]
  ELSE SplitSpace(Trim(message))

EncodeToken(e, m, token, idx, pick, date, page) ==
  IF e = "WO" THEN IF m = "WORD" THEN EncodeWordWO(token, idx, pick)
                   ELSE EncodeCharWO(token[1], idx, pick, page)
  ELSE EncodeWordPLP(e, m, token, idx, pick, date)

\* [...new Set(a)]: first occurrences, in order.
RECURSIVE Dedup(_)
Dedup(a) ==
  IF a = <<>> THEN <<>>
  ELSE LET front == Dedup(SubSeq(a, 1, Len(a) - 1))
       IN IF a[Len(a)] \in Range(front) THEN front ELSE Append(front, a[Len(a)])

Thrown == [threw |-> TRUE, success |-> FALSE, text |-> <<>>, missingTokens |-> <<>>]

RECURSIVE KeptCodes(_)
KeptCodes(outs) ==
  IF outs = <<>> THEN <<>>
  ELSE IF Head(outs).drop THEN KeptCodes(Tail(outs))
  ELSE <<Head(outs).code>> \o KeptCodes(Tail(outs))

RECURSIVE MissingOf(_, _)
MissingOf(tokens, outs) ==
  IF outs = <<>> THEN <<>>
  ELSE IF Head(outs).missing THEN <<Head(tokens)>> \o MissingOf(Tail(tokens), Tail(outs))
  ELSE MissingOf(Tail(tokens), Tail(outs))

\* encodeMessage(message, bookIndex, mode, dateString | pageNumber)
encodeMessage(e, m, message, idx, picks, date, page) ==
  LET tokens == MessageTokens(e, m, message)
      outs == [i \in DOMAIN tokens |->
                 EncodeToken(e, m, tokens[i], idx, picks[i], date, page)]
      missingTokens == MissingOf(tokens, outs)
  IN IF \E i \in DOMAIN outs : outs[i].threw THEN Thrown
     ELSE [threw |-> FALSE,
           success |-> (Len(missingTokens) = 0),
           text |-> Join(KeptCodes(outs), CodeSeparator(e, m)),
           missingTokens |-> Dedup(missingTokens)]

\* The draws Math.random can make for a message: one position per token, within
\* the token's candidate list.
CandidatesOf(e, m, token, idx) ==
  LET key == IF e = "WO" /\ m # "WORD" THEN <<LowerChar(token[1])>> ELSE KeyOf(e, token)
  IN IF token = <<>> THEN <<>> ELSE Lookup(idx, key).locs
\* A selection that always takes the first candidate (a variant the code does
\* not have).
DrawsFirst(counts) == {[i \in DOMAIN counts |-> 1]}
RECURSIVE DrawsFor(_)
DrawsFor(counts) ==
  IF counts = <<>> THEN {<<>>}
  ELSE LET n == IF Head(counts) = 0 THEN 1 ELSE Head(counts)
       IN {<<k>> \o rest : k \in 1..n, rest \in DrawsFor(Tail(counts))}
PickSets(e, m, message, idx) ==
  LET tokens == MessageTokens(e, m, message)
  IN DrawsFor([i \in DOMAIN tokens |-> Len(CandidatesOf(e, m, tokens[i], idx))])

----------------------------------------------------------------------------
(* decodeMessage                                                           *)

Out(text) == [threw |-> FALSE, out |-> text]
\* A method call on undefined: TypeError.
OutThrow == [threw |-> TRUE, out |-> <<>>]
Unknown == Out(<<"?">>)

Part(parts, i) == parseInt(parts[i])

\* ocr.js:201-225: the line, word and character numbers among the parsed
\* fields of a token; 0 where the field count fits no format of the mode.
NoFields == <<Num(0), Num(0), Num(0)>>
\* Fields read from the first one on, the page taken for the line (a variant
\* the code does not have).
CoordinateFieldsPageAsLine(m, parts) ==
  IF Len(parts) >= 3 THEN <<parts[1], parts[2], parts[3]>> ELSE NoFields
CoordinateFieldsWO(m, parts) ==
  IF m = "WORD"
  THEN IF Len(parts) >= 2 THEN <<parts[1], parts[2], Num(0)>> ELSE NoFields
  ELSE IF Len(parts) = 4 THEN <<parts[2], parts[3], parts[4]>>
  ELSE IF Len(parts) = 3 THEN <<parts[1], parts[2], parts[3]>>
  ELSE NoFields

\* ocr.js:193-246
DecodeTokenWO(m, token, text) ==
  IF token = <<"/">> THEN Out(<<" ">>)
  ELSE IF IsBracketed(token) THEN Out(Slice1(token))
  ELSE IF ~includes(token, ":") THEN Out(token)
  ELSE
    LET parts == SplitColon(token)
        nums == CoordinateFieldsWO(m, [i \in DOMAIN parts |-> Part(parts, i)])
        lineNum == nums[1]
        wordNum == nums[2]
        charNum == nums[3]
        lines == SplitLines(text)
    IN IF NumLess(lineNum, Num(1)) \/ NumGreater(lineNum, Num(Len(lines))) THEN Unknown
       ELSE IF isNaN(lineNum) THEN OutThrow       \* lines[NaN].trim()
       ELSE
         LET words == SplitSpace(Trim(lines[lineNum.val]))
         IN IF NumLess(wordNum, Num(1)) \/ NumGreater(wordNum, Num(Len(words))) THEN Unknown
            ELSE IF isNaN(wordNum) THEN OutThrow  \* words[NaN].replace(...)
            ELSE
              LET cleanWord == stripPunctuation(words[wordNum.val])
              IN IF m = "WORD" THEN Out(toUpperCase(cleanWord))
                 ELSE IF NumLess(charNum, Num(1)) \/ NumGreater(charNum, Num(Len(cleanWord)))
                      THEN Unknown
                 ELSE IF isNaN(charNum) THEN OutThrow  \* cleanWord[NaN].toUpperCase()
                 ELSE Out(<<UpperChar(cleanWord[charNum.val])>>)

\* The display form of a resolved word: ocr.js:422-424 and 614-616.
DisplayWord(e, rawWord) ==
  IF e = "ACCENT" THEN toUpperCase(trimDisplay(rawWord))
  ELSE toUpperCase(stripPunctuation(rawWord))

\* The number of ':'-separated fields a mode expects: ocr.js:382, 391, 574, 583.
ExpectedFields(m) == IF m = "PLP" THEN 3 ELSE 4

\* ocr.js:367-425, 559-617
DecodeTokenPLP(e, m, token, text) ==
  IF IsBracketed(token) THEN Out(Slice1(token))
  ELSE IF ~includes(token, ":") THEN Out(token)
  ELSE
    LET parts == SplitColon(token)
        skip == IF m = "DPLP" THEN 1 ELSE 0
        paragraphs == SplitParagraphs(text)
    IN IF Len(parts) # ExpectedFields(m) THEN Unknown
       ELSE
         LET paraNum == Part(parts, skip + 1)
             lineNum == Part(parts, skip + 2)
             wordNum == Part(parts, skip + 3)
         IN IF isNaN(paraNum) \/ isNaN(lineNum) \/ isNaN(wordNum) THEN Unknown
            ELSE IF paraNum.val < 1 \/ paraNum.val > Len(paragraphs) THEN Unknown
            ELSE IF paragraphs[paraNum.val] = <<>> THEN Unknown
            ELSE
              LET lines == SplitLines(paragraphs[paraNum.val])
              IN IF lineNum.val < 1 \/ lineNum.val > Len(lines) THEN Unknown
                 ELSE
                   LET words == SplitSpace(Trim(lines[lineNum.val]))
                   IN IF wordNum.val < 1 \/ wordNum.val > Len(words) THEN Unknown
                      ELSE Out(DisplayWord(e, words[wordNum.val]))

DecodeToken(e, m, token, text) ==
  IF e = "WO" THEN DecodeTokenWO(m, token, text) ELSE DecodeTokenPLP(e, m, token, text)

\* A join with a space in every mode (a variant the code does not have).
DecodeSeparatorSpace(e, m) == <<" ">>
\* The separator of decodedParts.join(...): ocr.js:250, 429, 621.
DecodeSeparator(e, m) == IF e = "WO" /\ m # "WORD" THEN <<>> ELSE <<" ">>

DecodeThrown == [threw |-> TRUE, success |-> FALSE, text |-> <<>>]

\* decodeMessage(cipher, bookText, mode)
decodeMessage(e, m, cipher, text) ==
  LET tokens == SplitSpace(Trim(cipher))
      outs == [i \in DOMAIN tokens |-> DecodeToken(e, m, tokens[i], text)]
  IN IF \E i \in DOMAIN outs : outs[i].threw THEN DecodeThrown
     ELSE [threw |-> FALSE, success |-> TRUE,
           text |-> Join([i \in DOMAIN outs |-> outs[i].out], DecodeSeparator(e, m))]

----------------------------------------------------------------------------
(* Inputs.                                                                 *)

\* The longest book, in pieces, and the longest message, in tokens.
MaxBookPieces == 3
MaxMessageTokens == 2
\* The largest page number passed to encodeMessage (engine WO).
MaxPage == 2

BookPieces == {<<"a">>, <<"b","!"," ">>, <<"\n">>}

RECURSIVE SeqsUpTo(_, _)
SeqsUpTo(S, n) ==
  IF n = 0 THEN {<<>>}
  ELSE LET shorter == SeqsUpTo(S, n - 1)
       IN shorter \cup {Append(q, x) : q \in shorter, x \in S}

GeneratedBooks == {Concat(q) : q \in SeqsUpTo(BookPieces, MaxBookPieces)}

\* The book of the spec's format examples.
GatoBook == <<"O"," ","g","a","t","o"," ","s","u","b","i","u"," ","n","o"," ",
              "m","u","r","o",".">>
ExampleBooks ==
  { GatoBook,
    <<"d","'","a"," ","V","o","v","ó","!">>,
    <<"c","o","n","s","t","r","u","c","t","o","r"," ","a">>,
    <<"_","_","p","r","o","t","o","_","_">>,
    <<"a","\r","\n","\r","\n","b","!"," ","-","-">>,
    <<"a","\r","b","!">>,
    <<" ">>,
    <<"a"," ","a">>,
    <<"\n","\n","a"," ","a","\n","b","!"," ","a">> }

Books == GeneratedBooks \cup ExampleBooks

MessageWords == { <<"a">>, <<"B","!">>, <<"-","-">> }
ExampleMessages ==
  { <<"g","a","t","o">>, <<"d","'","a">>, <<"v","o","v","o">>,
    <<"V","o","v","ó","!"," ","d","'","a">>,
    <<"c","o","n","s","t","r","u","c","t","o","r">>,
    <<"_","_","p","r","o","t","o","_","_">>,
    <<"z">>, <<"z"," ","z">>, <<"-","-"," ","z">>,
    <<"z"," ","a","\n","z">> }
Messages ==
  {Join(q, <<" ">>) : q \in SeqsUpTo(MessageWords, MaxMessageTokens)}
    \cup ExampleMessages

\* Cipher texts: every coordinate token of two to four fields over CipherFields,
\* and cipher texts with the other shapes decodeMessage tells apart.
CipherFields == { <<"0">>, <<"1">>, <<"2">>, <<"x">> }
CoordinateTokens ==
  {Join(q, <<":">>) : q \in SeqsUpTo(CipherFields, 4) \ SeqsUpTo(CipherFields, 1)}
ExampleCiphers ==
  { <<"1",":","1",":","1",":","1",":","1">>,
    <<"3",":","1",":","1">>, <<"1",":","3">>,
    <<"-","1",":","1",":","1">>, <<"1",":","-","1">>,
    <<"1",":","1",":","1","x">>, <<"1",":","1","x">>,
    <<"1",":",":","1">>, <<":">>,
    <<"[","z","]">>, <<"[","1",":","1","]">>, <<"/">>, <<"z">>, <<>>,
    <<"[","z","]"," ","z">>, <<"z"," ","/"," ","[","1",":","1","]">>,
    <<"1",":","1",":","1",":","1",":","1"," ","1",":","1",":","1">>,
    <<"1",":","1",":","1"," ","1",":","1">>,
    <<"1",":","1"," ","1",":","1",":","1">>,
    <<"2","0","2","4",":","1",":","1",":","2">>,
    <<"1",":","1",":","2">>, <<"9","9",":","1",":","1">> }
Ciphers == CoordinateTokens \cup ExampleCiphers

\* Date tags the user can type.
Dates == { <<>>, <<"2","0","2","4">>, <<" ","7"," ">>, <<"1",":","2">> }

EngineModes == { <<"WO", "WORD">>, <<"WO", "OTTENDORF">>,
                 <<"STRICT", "PLP">>, <<"STRICT", "DPLP">>,
                 <<"ACCENT", "PLP">>, <<"ACCENT", "DPLP">> }

----------------------------------------------------------------------------
(* The state machine: the inputs are fixed at the start; the index is      *)
(* built, the message encoded with some draw of Math.random, and the       *)
(* cipher text decoded against the same book.                              *)

NoEncoded == [threw |-> FALSE, success |-> FALSE, text |-> <<>>, missingTokens |-> <<>>]
\* No call of extractTextFromImage has been made.
OcrIdle ==
  /\ geminiKey = "" /\ image = ""
  /\ timer = "none"
  /\ response = [status |-> 0, text |-> <<>>]
  /\ visionError = "none"
  /\ calls = <<>>
  /\ returned = [kind |-> "none", text |-> <<>>]
\* useState<ProcessingResult | null>(null)
Null == [null |-> TRUE]
NoDecoded == [threw |-> FALSE, success |-> FALSE, text |-> <<>>]

InitWith(inputs) ==
  /\ \E em \in EngineModes : engine = em[1] /\ mode = em[2]
  /\ bookText \in Books
  /\ inputText \in inputs
  /\ dateString \in (IF mode = "DPLP" THEN Dates ELSE {<<>>})
  /\ pageNumber \in (IF mode = "OTTENDORF" THEN 1..MaxPage ELSE {1})
  /\ bookIndex = EmptyIndex
  /\ random = <<>>
  /\ encoded = NoEncoded
  /\ decoded = NoDecoded
  /\ pc = "start"
  /\ indexText = bookText
  /\ isEncoding = TRUE
  /\ result = Null
  /\ apiKeyReady = FALSE
  /\ isAnalyzingImage = FALSE
  /\ extraction = "none"
  /\ captured = <<>>
  /\ credentials = "missing"
  /\ OcrIdle

\* The index is built under the mode the message is encoded in.
Init == InitWith(Messages) /\ indexMode = mode

IndexBook ==
  /\ pc = "start"
  /\ bookIndex' = indexBook(engine, bookText, indexMode)
  /\ pc' = "indexed"
  /\ UNCHANGED <<engine, mode, bookText, inputText, dateString, pageNumber,
                 random, encoded, decoded>>
  /\ UNCHANGED others

Encode ==
  /\ pc = "indexed"
  /\ ~bookIndex.threw
  /\ \E f \in PickSets(engine, mode, inputText, bookIndex) :
       /\ random' = f
       /\ encoded' = encodeMessage(engine, mode, inputText, bookIndex, f,
                                   dateString, pageNumber)
  /\ pc' = "encoded"
  /\ UNCHANGED <<engine, mode, bookText, inputText, dateString, pageNumber,
                 bookIndex, decoded>>
  /\ UNCHANGED others

DecodeCipher ==
  /\ pc = "encoded"
  /\ ~encoded.threw
  /\ decoded' = decodeMessage(engine, mode, encoded.text, bookText)
  /\ pc' = "decoded"
  /\ UNCHANGED <<engine, mode, bookText, inputText, dateString, pageNumber,
                 bookIndex, random, encoded>>
  /\ UNCHANGED others

Next == IndexBook \/ Encode \/ DecodeCipher

Spec == Init /\ [][Next]_vars

(* Decoding a cipher text the user typed: the input is decoded against the  *)
(* book directly.                                                          *)
InitDecode ==
  InitWith(Ciphers) /\ dateString = <<>> /\ pageNumber = 1 /\ indexMode = mode

DecodeInput ==
  /\ pc = "start"
  /\ decoded' = decodeMessage(engine, mode, inputText, bookText)
  /\ pc' = "decoded"
  /\ UNCHANGED <<engine, mode, bookText, inputText, dateString, pageNumber,
                 bookIndex, random, encoded>>
  /\ UNCHANGED others

NextDecode == DecodeInput

SpecDecode == InitDecode /\ [][NextDecode]_vars

(* An index built under one mode of an engine and queried under the other:  *)
(* the same steps, from a state where the two mode arguments differ.        *)
ModesOf(e) == IF e = "WO" THEN {"WORD", "OTTENDORF"} ELSE {"PLP", "DPLP"}

InitCross == InitWith(Messages) /\ indexMode \in ModesOf(engine) \ {mode}

SpecCross == InitCross /\ [][Next]_vars

(* Short messages, among them the tokens encode passes through that decode  *)
(* reads as its own syntax, over every book.                                *)
ShortMessages ==
  {Join(q, <<" ">>) : q \in SeqsUpTo(MessageWords, 2)}
    \cup ExampleMessages
    \cup { <<":">>, <<"[","!","]">>, <<"/">>, <<"a"," ",":">> }

InitRoundTrip == InitWith(ShortMessages) /\ indexMode = mode

SpecRoundTrip == InitRoundTrip /\ [][Next]_vars

----------------------------------------------------------------------------
(* The application (src/unnamed/part_000).  Every handler is one step: the  *)
(* state it sets, the render that follows (useMemo recomputes the index     *)
(* when its dependencies changed) and the effect that runs processText.     *)

\* part_000:9
INITIAL_BOOK == <<"E","s","c","r","e","v","a"," ","a","q","u","i"," ","s","e","u"," ","t","e","x","t","o",".",".",".">>
\* part_000:135
PageSeparator ==
  <<"\n","\n","-","-","-"," ","N","O","V","A"," ","P","Á","G","I","N","A"," ","I","D","E","N","T","I","F","I","C","A","D","A"," ","-","-","-","\n","\n">>

\* The revisions of the cipher service the application is built with.
AppEngines == {"STRICT", "ACCENT"}
\* What the user types or loads into the book, what the user types into the
\* input, the date tags, and what an extraction returns.
TypedBooks == { <<>>, <<" ">>, <<"a">> }
AppInputs == { <<>>, <<"a">>, <<"1",":","1",":","1">>,
               <<"c","o","n","s","t","r","u","c","t","o","r">> }
AppDates == { <<>>, <<"7">> }
OcrTexts == { <<"c">>, <<>> }
\* The most pages the extractions add to a book.
MaxPages == 1

\* The number of page separators in a text.
PagesIn(text) ==
  Cardinality({i \in 1..(Len(text) - Len(PageSeparator) + 1) :
                 SubSeq(text, i, i + Len(PageSeparator) - 1) = PageSeparator})

\* Dependencies that leave the book text out (a variant the code does not
\* have).
MemoDepsModeOnly(text, m) == <<m>>
\* part_000:67: the dependencies of useMemo, [bookText, mode]
MemoDeps(text, m) == <<text, m>>

\* An update from the book text at the start of the extraction (a variant the
\* code does not have).
OcrUpdateFromClosure(prev, closure, text) ==
  IF closure = INITIAL_BOOK \/ Trim(closure) = <<>> THEN text
  ELSE closure \o PageSeparator \o text
\* part_000:129-137: the updater passed to setBookText
OcrUpdate(prev, closure, text) ==
  IF prev = INITIAL_BOOK \/ Trim(prev) = <<>> THEN text
  ELSE prev \o PageSeparator \o text

\* The render after a handler left the state (b, m, i, d, e), and its effect:
\* part_000:65-67 and 83-100.  An exception in the render or in the effect
\* unmounts the application.
Rendered(b, m, i, d, e) ==
  LET recompute == MemoDeps(b, m) # MemoDeps(indexText, indexMode)
      rerun == recompute
                 \/ <<i, m, e, d, b>> # <<inputText, mode, isEncoding, dateString, bookText>>
  IN /\ bookText' = b /\ mode' = m /\ inputText' = i
     /\ dateString' = d /\ isEncoding' = e
     /\ indexText' = (IF recompute THEN b ELSE indexText)
     /\ indexMode' = (IF recompute THEN m ELSE indexMode)
     /\ \E idx \in {IF recompute THEN indexBook(engine, b, m) ELSE bookIndex} :
          /\ bookIndex' = idx
          /\ IF idx.threw THEN pc' = "crashed" /\ UNCHANGED <<result, random>>
             ELSE IF ~rerun THEN UNCHANGED <<result, random, pc>>
             ELSE IF Trim(i) = <<>> THEN result' = Null /\ random' = <<>> /\ pc' = pc
             ELSE IF e
                  THEN \E f \in PickSets(engine, m, i, idx) :
                       \E res \in {encodeMessage(engine, m, i, idx, f, d, 1)} :
                         /\ random' = f
                         /\ IF res.threw THEN pc' = "crashed" /\ result' = result
                            ELSE pc' = pc /\ result' = res
             ELSE \E res \in {decodeMessage(engine, m, i, b)} :
                    /\ random' = <<>>
                    /\ IF res.threw THEN pc' = "crashed" /\ result' = result
                       ELSE pc' = pc /\ result' = res

\* What the handlers of the book and of the input leave alone.
UnchangedOcr ==
  UNCHANGED <<engine, pageNumber, encoded, decoded, apiKeyReady,
              isAnalyzingImage, extraction, captured, ocrVars>>
UnchangedView ==
  UNCHANGED <<mode, bookText, inputText, dateString, isEncoding, bookIndex,
              indexText, indexMode, result, random, pc,
              engine, pageNumber, encoded, decoded, ocrVars>>

InitApp ==
  /\ engine \in AppEngines
  /\ mode = "PLP"
  /\ bookText = INITIAL_BOOK
  /\ inputText = <<>>
  /\ dateString = <<>>
  /\ isEncoding = TRUE
  /\ isAnalyzingImage = FALSE
  /\ result = Null
  /\ apiKeyReady \in BOOLEAN
  /\ bookIndex = indexBook(engine, INITIAL_BOOK, "PLP")
  /\ indexText = INITIAL_BOOK
  /\ indexMode = "PLP"
  /\ random = <<>>
  /\ extraction = "none"
  /\ captured = <<>>
  /\ credentials = "missing"
  /\ OcrIdle
  /\ pageNumber = 1
  /\ encoded = NoEncoded
  /\ decoded = NoDecoded
  /\ pc = "mounted"

\* part_000:315
EditBook ==
  /\ pc = "mounted"
  /\ \E t \in TypedBooks : Rendered(t, mode, inputText, dateString, isEncoding)
  /\ UnchangedOcr

\* part_000:192-196
FocusBook ==
  /\ pc = "mounted"
  /\ Rendered(IF bookText = INITIAL_BOOK THEN <<>> ELSE bookText,
              mode, inputText, dateString, isEncoding)
  /\ UnchangedOcr

\* part_000:334
ClearBook ==
  /\ pc = "mounted"
  /\ Rendered(<<>>, mode, inputText, dateString, isEncoding)
  /\ UnchangedOcr

\* part_000:159-162: setBookText(text) once file.text() has resolved
LoadTextFile ==
  /\ pc = "mounted"
  /\ \E t \in TypedBooks : Rendered(t, mode, inputText, dateString, isEncoding)
  /\ UnchangedOcr

\* part_000:243, 249
SetMode ==
  /\ pc = "mounted"
  /\ \E m \in {"PLP", "DPLP"} : Rendered(bookText, m, inputText, dateString, isEncoding)
  /\ UnchangedOcr

\* part_000:361, 369
SetEncoding ==
  /\ pc = "mounted"
  /\ \E e \in BOOLEAN : Rendered(bookText, mode, <<>>, dateString, e)
  /\ UnchangedOcr

\* part_000:377-383: the date field is there in DPLP mode when encoding
SetDate ==
  /\ pc = "mounted"
  /\ mode = "DPLP" /\ isEncoding
  /\ \E d \in AppDates : Rendered(bookText, mode, inputText, d, isEncoding)
  /\ UnchangedOcr

\* part_000:409
EditInput ==
  /\ pc = "mounted"
  /\ \E i \in AppInputs : Rendered(bookText, mode, i, dateString, isEncoding)
  /\ UnchangedOcr

\* part_000:392
ClearInput ==
  /\ pc = "mounted"
  /\ Rendered(bookText, mode, <<>>, dateString, isEncoding)
  /\ UnchangedOcr

\* part_000:51-62
LinkApiKey ==
  /\ pc = "mounted"
  /\ ~apiKeyReady
  /\ apiKeyReady' = TRUE
  /\ UNCHANGED <<isAnalyzingImage, extraction, captured>>
  /\ UnchangedView

\* part_000:103-127: processImageFile up to the call of extractTextFromImage.
\* The two upload buttons are disabled while isAnalyzingImage
\* (part_000:282, 301; Button.tsx).
StartExtraction ==
  /\ pc = "mounted"
  /\ apiKeyReady
  /\ ~isAnalyzingImage
  /\ isAnalyzingImage' = TRUE
  /\ extraction' = "pending"
  /\ captured' = bookText
  /\ UNCHANGED apiKeyReady
  /\ UnchangedView

\* part_000:127-137, 148-150: the promise is fulfilled with a text
CompleteExtraction ==
  /\ pc = "mounted"
  /\ extraction = "pending"
  /\ PagesIn(bookText) < MaxPages
  /\ \E text \in OcrTexts :
       Rendered(OcrUpdate(bookText, captured, text), mode, inputText, dateString,
                isEncoding)
  /\ isAnalyzingImage' = FALSE
  /\ extraction' = "fulfilled"
  /\ UNCHANGED <<engine, pageNumber, encoded, decoded, apiKeyReady, captured,
                 ocrVars>>

\* part_000:139-150: the promise is rejected
FailExtraction ==
  /\ pc = "mounted"
  /\ extraction = "pending"
  /\ isAnalyzingImage' = FALSE
  /\ extraction' = "rejected"
  /\ UNCHANGED <<apiKeyReady, captured>>
  /\ UnchangedView

NextApp ==
  \/ EditBook \/ FocusBook \/ ClearBook \/ LoadTextFile
  \/ SetMode \/ SetEncoding \/ SetDate \/ EditInput \/ ClearInput
  \/ LinkApiKey \/ StartExtraction \/ CompleteExtraction \/ FailExtraction

SpecApp == InitApp /\ [][NextApp]_vars

----------------------------------------------------------------------------
(* extractTextFromImage, Vision first (src/services/geminiService.ts:80-122) *)
(* and the /api/ocr handler it posts to (src/api/ocr.js:3-68).  pc is the   *)
(* position of the call: "idle", "fetch" (awaiting fetch), "body" (awaiting *)
(* response.json()), "gemini" (awaiting generateContent), "returned",       *)
(* "rejected".                                                              *)

\* geminiService.ts:81: customKey || process.env.API_KEY
KeyToUse(customKey, envKey) == IF customKey # "" THEN customKey ELSE envKey

\* ocr.js:17-67: the status and the text of the handler's answer, by the
\* GOOGLE_CREDENTIALS of the server, the image posted and what
\* documentTextDetection does (it throws, or it finds fullText).
HandlerResponse(creds, img, throws, fullText) ==
  IF creds = "missing" THEN [status |-> 503, text |-> <<>>]
  ELSE IF creds = "invalid" THEN [status |-> 500, text |-> <<>>]
  ELSE IF img = "" THEN [status |-> 400, text |-> <<>>]
  ELSE IF throws THEN [status |-> 500, text |-> <<>>]
  ELSE [status |-> 200, text |-> fullText]

\* A fallback that does not look at the key (a variant the code does not
\* have).
FallbackWithoutKeyCheck(key) == "gemini"
\* geminiService.ts:112-120: where the catch block goes
FallbackTo(key) == IF key = "" THEN "rejected" ELSE "gemini"

\* The catch block after the Vision attempt failed for a reason.
Fallback(reason) ==
  /\ visionError' = reason
  /\ pc' = FallbackTo(geminiKey)
  /\ calls' = (IF FallbackTo(geminiKey) = "gemini" THEN Append(calls, "gemini") ELSE calls)
  /\ returned' = (IF FallbackTo(geminiKey) = "gemini" THEN returned
                  ELSE [kind |-> "error", text |-> <<>>])

UnchangedApp ==
  UNCHANGED <<engine, mode, bookText, inputText, dateString, pageNumber,
              bookIndex, random, encoded, decoded, indexMode, indexText,
              isEncoding, result, apiKeyReady, isAnalyzingImage, extraction,
              captured>>

InitOcr ==
  /\ engine = "ACCENT" /\ mode = "PLP"
  /\ bookText = <<>> /\ inputText = <<>> /\ dateString = <<>> /\ pageNumber = 1
  /\ bookIndex = EmptyIndex /\ random = <<>>
  /\ encoded = NoEncoded /\ decoded = NoDecoded
  /\ indexMode = "PLP" /\ indexText = <<>>
  /\ isEncoding = TRUE /\ result = Null
  /\ apiKeyReady = FALSE /\ isAnalyzingImage = FALSE
  /\ extraction = "none" /\ captured = <<>>
  /\ credentials \in {"missing", "invalid", "valid"}
  /\ OcrIdle
  /\ pc = "idle"

\* geminiService.ts:80-96: the call, up to the await of fetch
CallExtract ==
  /\ pc = "idle"
  /\ \E customKey \in {"", "custom"}, envKey \in {"", "env"} :
       geminiKey' = KeyToUse(customKey, envKey)
  /\ image' \in {"", "jpeg"}
  /\ timer' = "armed"
  /\ calls' = <<"vision">>
  /\ pc' = "fetch"
  /\ UNCHANGED <<credentials, response, visionError, returned>>
  /\ UnchangedApp

\* ocr.js:3-68: the server answers the request
Handler ==
  /\ pc = "fetch"
  /\ response.status = 0
  /\ \E throws \in BOOLEAN, fullText \in OcrTexts \cup {<<"d">>} :
       response' = HandlerResponse(credentials, image, throws, fullText)
  /\ UNCHANGED <<pc, geminiKey, image, credentials, timer, visionError, calls, returned>>
  /\ UnchangedApp

\* geminiService.ts:89-110: fetch resolves with the answer
FetchResolves ==
  /\ pc = "fetch"
  /\ response.status # 0
  /\ timer' = (IF timer = "armed" THEN "cleared" ELSE timer)
  /\ IF response.status = 200
     THEN pc' = "body" /\ UNCHANGED <<visionError, calls, returned>>
     ELSE Fallback("status")
  /\ UNCHANGED <<geminiKey, image, credentials, response>>
  /\ UnchangedApp

\* geminiService.ts:89, 112: fetch rejects (the request or the answer is lost)
FetchFails ==
  /\ pc = "fetch"
  /\ Fallback("network")
  /\ UNCHANGED <<geminiKey, image, credentials, timer, response>>
  /\ UnchangedApp

\* geminiService.ts:87: the 8 s timer fires; abort rejects a pending fetch
TimerFires ==
  /\ timer = "armed"
  /\ timer' = "fired"
  /\ IF pc = "fetch" THEN Fallback("abort")
     ELSE UNCHANGED <<pc, visionError, calls, returned>>
  /\ UNCHANGED <<geminiKey, image, credentials, response>>
  /\ UnchangedApp

\* geminiService.ts:101-110: response.json() and the test of data.text
ReadBody ==
  /\ pc = "body"
  /\ \/ /\ response.text # <<>>
        /\ pc' = "returned"
        /\ returned' = [kind |-> "text", text |-> response.text]
        /\ UNCHANGED <<visionError, calls>>
     \/ /\ response.text = <<>>
        /\ Fallback("notext")
     \/ Fallback("network")
  /\ UNCHANGED <<geminiKey, image, credentials, timer, response>>
  /\ UnchangedApp

\* geminiService.ts:50-67: generateContent resolves; response.text || ""
GeminiResolves ==
  /\ pc = "gemini"
  /\ \E text \in OcrTexts \cup {<<"g">>} : returned' = [kind |-> "text", text |-> text]
  /\ pc' = "returned"
  /\ UNCHANGED <<geminiKey, image, credentials, timer, response, visionError, calls>>
  /\ UnchangedApp

\* geminiService.ts:68-71: generateContent rejects
GeminiFails ==
  /\ pc = "gemini"
  /\ returned' = [kind |-> "error", text |-> <<>>]
  /\ pc' = "rejected"
  /\ UNCHANGED <<geminiKey, image, credentials, timer, response, visionError, calls>>
  /\ UnchangedApp

NextOcr ==
  \/ CallExtract \/ Handler \/ FetchResolves \/ FetchFails \/ TimerFires
  \/ ReadBody \/ GeminiResolves \/ GeminiFails

SpecOcr == InitOcr /\ [][NextOcr]_vars

----------------------------------------------------------------------------
(* Vocabulary of the properties.                                           *)

NonEmpty(t) == t # <<>>
CharMode == engine = "WO" /\ mode = "OTTENDORF"

\* The words of a text: its maximal runs of non-whitespace characters.
WordsOf(text) == SelectSeq(SplitSpace(Trim(text)), NonEmpty)

\* A text up to case and boundary punctuation: its words, each with the
\* non-alphanumeric characters at its two ends removed, in lower case.
CanonWords(text) ==
  LET ws == WordsOf(text)
  IN SelectSeq([i \in DOMAIN ws |-> MapLower(trimDisplay(ws[i]))], NonEmpty)

\* No two words of the book share a key (no homophony between words).
UniqueWordBook ==
  LET ws == WordsOf(bookText)
  IN \A i, j \in DOMAIN ws : i # j => KeyOf(engine, ws[i]) # KeyOf(engine, ws[j])

\* The message is made of words of the book.
MessageFromBook ==
  /\ WordsOf(inputText) # <<>>
  /\ Range(WordsOf(inputText)) \subseteq Range(WordsOf(bookText))

\* A decimal integer: an optional minus sign and one or more digits.
IsInteger(f) ==
  LET d == IF startsWith(f, "-") THEN Tail(f) ELSE f
  IN d # <<>> /\ \A i \in DOMAIN d : IsDigit(d[i])

\* The cipher text is one coordinate token: no whitespace, a ':', no brackets.
IsCoordinateToken(c) ==
  /\ c # <<>>
  /\ \A i \in DOMAIN c : ~IsSpace(c[i])
  /\ includes(c, ":")
  /\ ~IsBracketed(c)

\* The field counts of a mode's coordinate format, and the structural fields
\* (paragraph, line, word, character) among the fields of a token.
FieldCounts(m) ==
  IF m = "WORD" THEN {2} ELSE IF m = "OTTENDORF" THEN {3, 4}
  ELSE IF m = "PLP" THEN {3} ELSE {4}
StructuralFields(m, fields) ==
  IF (m = "OTTENDORF" /\ Len(fields) = 4) \/ m = "DPLP" THEN Tail(fields) ELSE fields

\* The number of words on a line: none on a blank line.
WordCount(line) == Len(WordsOf(line))

\* The coordinate (a sequence of integers) names a position of the book:
\* every field lies in [1, count of that unit inside its container].
InBook(e, m, coord, text) ==
  LET inPara == e # "WO"
      paras == SplitParagraphs(text)
      p == coord[1]
      l == IF inPara THEN coord[2] ELSE coord[1]
      w == IF inPara THEN coord[3] ELSE coord[2]
      okPara == inPara => (1 <= p /\ p <= Len(paras))
      lines == IF inPara THEN (IF okPara THEN SplitLines(paras[p]) ELSE <<>>)
               ELSE SplitLines(text)
      okLine == okPara /\ 1 <= l /\ l <= Len(lines)
      okWord == okLine /\ 1 <= w /\ w <= WordCount(lines[l])
  IN IF m = "OTTENDORF"
     THEN okWord /\ 1 <= coord[3]
                 /\ coord[3] <= Len(cleanWordKey(WordsOf(lines[l])[w]))
     ELSE okWord

Question == <<"?">>

\* C1 (as claimed): for a book whose words are all distinct and a message made
\* of words of the book, decoding the encoded message gives the message back up
\* to case and boundary punctuation (stated here for a date tag without ':').
C1_RoundTrip ==
  (pc = "decoded" /\ UniqueWordBook /\ MessageFromBook /\ ~includes(dateString, ":"))
    => (~decoded.threw /\ CanonWords(decoded.text) = CanonWords(inputText))

\* The decoded cipher text is one coordinate token with the number of fields
\* its mode expects.
DecodedCoordinate ==
  /\ pc = "decoded"
  /\ IsCoordinateToken(inputText)
  /\ Len(SplitColon(inputText)) \in FieldCounts(mode)
InputStructural == StructuralFields(mode, SplitColon(inputText))
IntegerFields == \A i \in DOMAIN InputStructural : IsInteger(InputStructural[i])
InputCoordinate == [i \in DOMAIN InputStructural |-> parseInt(InputStructural[i]).val]

\* C2 (as claimed): a coordinate with the right number of integer fields, one of
\* them outside [1, count], decodes to "?" and decode does not throw.
C2_BoundsSafety ==
  (DecodedCoordinate /\ IntegerFields
     /\ ~InBook(engine, mode, InputCoordinate, bookText))
    => (~decoded.threw /\ decoded.text = Question)

\* C3 (as claimed): a coordinate with a structural field that is no decimal
\* integer decodes to "?", and decode never throws.
C3_NonIntegerFields ==
  /\ pc = "decoded" => ~decoded.threw
  /\ (DecodedCoordinate /\ ~IntegerFields) => decoded.text = Question

\* What decode gives for one token of a cipher text, decoded on its own.
DecodedAlone(token) == decodeMessage(engine, mode, token, bookText)
WrongFieldCount(token) ==
  /\ IsCoordinateToken(token)
  /\ Len(SplitColon(token)) \notin FieldCounts(mode)
  /\ \A i \in DOMAIN SplitColon(token) : IsInteger(SplitColon(token)[i])

\* C4 (as claimed): a token with ':' and the wrong number of fields decodes to
\* "?", and the other tokens of the cipher text decode as they do alone (stated
\* here for tokens whose fields are all decimal integers).
C4_FieldCountMismatch ==
  pc = "decoded" =>
    LET tokens == WordsOf(inputText)
    IN /\ \A i \in DOMAIN tokens :
            WrongFieldCount(tokens[i]) => DecodedAlone(tokens[i]).text = Question
       /\ (\E i \in DOMAIN tokens : WrongFieldCount(tokens[i])) =>
            /\ ~decoded.threw
            /\ decoded.text = Join([i \in DOMAIN tokens |-> DecodedAlone(tokens[i]).text],
                                   IF CharMode THEN <<>> ELSE <<" ">>)

\* C5 (as claimed): encode returns a result record for every message and every
\* index build_index produced; it never throws.
C5_EncodeTotal == pc = "encoded" => ~encoded.threw

\* The units encode looks up: the characters of the message in character mode,
\* its words otherwise.  random[i] is the draw made for unit i.
Units ==
  IF CharMode THEN [i \in DOMAIN inputText |-> <<inputText[i]>>] ELSE WordsOf(inputText)
UnitKey(u) == IF CharMode THEN <<LowerChar(u[1])>> ELSE KeyOf(engine, u)
\* A unit encode looks up at all: a letter or digit in character mode, a word
\* with a letter or digit otherwise.
Eligible(u) ==
  IF CharMode THEN ~IsSpace(u[1]) /\ IsOttendorfChar(LowerChar(u[1])) ELSE UnitKey(u) # <<>>
HasCandidates(u) == Eligible(u) /\ UnitKey(u) \in DOMAIN bookIndex.map
Bracketed(u) == <<"[">> \o u \o <<"]">>
Occurrences(x, q) == Cardinality({i \in DOMAIN q : q[i] = x})
\* The per-unit outputs of the cipher text, in order.
Outputs == SplitSpace(encoded.text)

\* C6 (as claimed): every unit without candidates is in missing_tokens exactly
\* once and is emitted as [unit]; no unit with candidates is in missing_tokens;
\* success is true exactly when missing_tokens is empty.
C6_MissingTokens ==
  pc = "encoded" =>
    /\ ~encoded.threw
    /\ \A i \in DOMAIN Units :
         IF Eligible(Units[i]) /\ ~HasCandidates(Units[i])
         THEN /\ Occurrences(Units[i], encoded.missingTokens) = 1
              /\ Bracketed(Units[i]) \in Range(Outputs)
         ELSE Units[i] \notin Range(encoded.missingTokens)
    /\ encoded.success <=> (encoded.missingTokens = <<>>)

\* The coordinate text of a location, as an engine's mode writes it with no tag
\* and page 1.
CoordinateOf(loc) ==
  IF mode = "WORD" THEN FormatWord(loc)
  ELSE IF mode = "OTTENDORF" THEN FormatChar(1, loc)
  ELSE IF mode = "DPLP" THEN FormatDPLP(<<>>, loc)
  ELSE FormatPLP(loc)

\* C7 (as claimed): every location of the index, resolved by decode against
\* the same book and mode, yields the text in its content field (compared in
\* upper case, decode's output being upper-cased).
C7_LocationsResolve ==
  (pc = "indexed" /\ ~bookIndex.threw) =>
    \A k \in DOMAIN bookIndex.map : \A i \in DOMAIN bookIndex.map[k] :
      LET loc == bookIndex.map[k][i]
          back == decodeMessage(engine, mode, CoordinateOf(loc), bookText)
      IN ~back.threw /\ back.text = toUpperCase(loc.content)

\* The tokens encode maps over (random[i] is the draw made for token i), the
\* tokens whose output stays in the cipher text, and the place of token i among
\* the outputs.
Tokens == MessageTokens(engine, mode, inputText)
EmptyKey(token) == ~CharMode /\ KeyOf(engine, token) = <<>>
Kept(token) == ~(engine = "WO" /\ mode = "WORD" /\ EmptyKey(token))
PlaceOf(toks, i) == Cardinality({j \in 1..i : Kept(toks[j])})
KeptCount(toks) == PlaceOf(toks, Len(toks))
\* The candidates of a token, none when encode does not look the token up.
Candidates(token) ==
  IF CharMode /\ ~Eligible(token) THEN <<>>
  ELSE CandidatesOf(engine, mode, token, bookIndex)

\* A field is the decimal numeral of n: digits only, no leading zero.
IsDecimalOf(f, n) ==
  /\ f # <<>>
  /\ \A i \in DOMAIN f : IsDigit(f[i])
  /\ Len(f) = 1 \/ f[1] # "0"
  /\ parseInt(f).val = n

\* The fields a mode's format takes from a location, in order.
FieldsOf(loc) ==
  IF mode = "WORD" THEN <<loc.line, loc.word>>
  ELSE IF mode = "OTTENDORF" THEN <<pageNumber, loc.line, loc.word, loc.char>>
  ELSE <<loc.paragraph, loc.line, loc.word>>
\* The tag a Date-Paragraph-Line-Word coordinate starts with, ':' included.
TagPrefix ==
  IF mode # "DPLP" THEN <<>>
  ELSE (IF Trim(dateString) = <<>> THEN <<"D","A","T","A">> ELSE Trim(dateString)) \o <<":">>
HasPrefix(s, prefix) == Len(s) >= Len(prefix) /\ SubSeq(s, 1, Len(prefix)) = prefix
\* The output is the coordinate of the location in the mode's format.
IsCoordinateFor(out, loc) ==
  /\ HasPrefix(out, TagPrefix)
  /\ LET fields == SplitColon(SubSeq(out, Len(TagPrefix) + 1, Len(out)))
         want == FieldsOf(loc)
     IN /\ Len(fields) = Len(want)
        /\ \A j \in DOMAIN want : IsDecimalOf(fields[j], want[j])

Gato == <<"g","a","t","o">>
GatoExample ==
  /\ bookText = GatoBook
  /\ inputText = Gato
  /\ mode = "PLP"

C9_DateIgnored ==
  (pc = "decoded" /\ mode = "DPLP") =>
    LET untagged == encodeMessage(engine, "PLP", inputText, bookIndex, random, <<>>, 1)
        plain == decodeMessage(engine, "PLP", untagged.text, bookText)
        toks == Tokens
        outs == Outputs
    IN /\ \A i \in DOMAIN toks :
            Candidates(toks[i]) # <<>> => HasPrefix(outs[i], TagPrefix)
       /\ ~decoded.threw
       /\ decoded.text = plain.text

\* C10 (as claimed): in every word mode a token with an empty key is in the
\* cipher text unmodified at its position, and is not in missing_tokens.
C10_PassThroughEveryWordMode ==
  (pc = "encoded" /\ ~CharMode /\ ~encoded.threw) =>
    LET toks == Tokens
        outs == Outputs
    IN \A i \in DOMAIN toks :
         EmptyKey(toks[i]) =>
           /\ Len(outs) = Len(toks)
           /\ outs[i] = toks[i]
           /\ toks[i] \notin Range(encoded.missingTokens)

\* C10 (amended): a token with an empty key is never bracketed and never in
\* missing_tokens; in the Paragraph-Line-Word and Date-Paragraph-Line-Word
\* modes it is in the cipher text unmodified at its position, and in Line-Word
\* mode it is left out of the cipher text.
C10_EmptyKey ==
  (pc = "encoded" /\ ~CharMode /\ ~encoded.threw) =>
    LET toks == Tokens
        outs == Outputs
        kept == KeptCount(toks)
    IN \A i \in DOMAIN toks :
         EmptyKey(toks[i]) =>
           /\ toks[i] \notin Range(encoded.missingTokens)
           /\ Bracketed(toks[i]) \notin Range(outs)
           /\ IF mode = "WORD"
              THEN /\ kept = 0 => encoded.text = <<>>
                   /\ kept > 0 => Len(outs) = kept
                   /\ toks[i] # <<>> => toks[i] \notin Range(outs)
              ELSE /\ Len(outs) = Len(toks)
                   /\ outs[i] = toks[i]

\* C10's case: a punctuation-only token encoded next to a word of the book.
C10_Witness ==
  /\ pc = "encoded"
  /\ mode = "PLP"
  /\ inputText = <<"-", "-", " ", "a">>
  /\ encoded.success
  /\ Outputs[1] = <<"-", "-">>
  /\ Len(Outputs) = 2

\* A letter or digit, accented letters included; every other character of a
\* token is punctuation.
LettersAndDigits ==
  Range(LowerAZ) \cup Range(UpperAZ) \cup Range(Digits)
    \cup Range(LowerAcc) \cup Range(UpperAcc)
IsLetterOrDigit(c) == c \in LettersAndDigits
LettersOf(t) == SelectSeq(t, IsLetterOrDigit)
\* The unaccented lower-case letter of a letter.
BaseLetter(c) == LowerChar(FoldChar(c))
\* The letters and digits of a token without case and accents, and without
\* case only.
FoldedLetters(t) == [i \in DOMAIN LettersOf(t) |-> BaseLetter(LettersOf(t)[i])]
LowerLetters(t) == MapLower(LettersOf(t))
\* Two tokens differ only in case, diacritics and punctuation.
SameLetters(t, u) == FoldedLetters(t) = FoldedLetters(u)
\* ... and at some letter one has an accent the other has not.
AccentDiffers(t, u) == SameLetters(t, u) /\ LowerLetters(t) # LowerLetters(u)

VovoAccented == <<"V","o","v","ó","!">>
VovoPlain == <<"v","o","v","o">>
\* normalize("Vovó!") and normalize("vovo") under each policy.
VovoExample ==
  /\ KeyOf("ACCENT", VovoAccented) = KeyOf("ACCENT", VovoPlain)
  /\ KeyOf("STRICT", VovoAccented) # KeyOf("STRICT", VovoPlain)
  /\ KeyOf("WO", VovoAccented) # KeyOf("WO", VovoPlain)

\* C11: under the accent-insensitive policy a message token and a book word
\* that differ only in case, diacritics and punctuation have the same key, and
\* encode finds the word (the token is not missing); under the strict policy
\* two tokens that differ in an accent have different keys; the same raw token
\* gets the same treatment wherever it occurs; normalize("Vovó!") and
\* normalize("vovo") are equal under the first policy and differ under the
\* second.
C11_NormalizationPolicies ==
  /\ (pc = "encoded" /\ ~CharMode /\ ~encoded.threw) =>
       LET toks == Tokens
           outs == Outputs
           words == Range(WordsOf(bookText))
       IN /\ \A i \in DOMAIN toks : \A w \in words :
               IF engine = "ACCENT"
               THEN (SameLetters(toks[i], w) /\ LettersOf(toks[i]) # <<>>) =>
                      /\ KeyOf(engine, toks[i]) = KeyOf(engine, w)
                      /\ toks[i] \notin Range(encoded.missingTokens)
                      /\ Len(outs) = Len(toks) /\ includes(outs[i], ":")
               ELSE AccentDiffers(toks[i], w) =>
                      KeyOf(engine, toks[i]) # KeyOf(engine, w)
          /\ \A i, j \in DOMAIN toks :
               toks[i] = toks[j] =>
                 (toks[i] \in Range(encoded.missingTokens)
                    <=> toks[j] \in Range(encoded.missingTokens))
  /\ VovoExample

\* C11's case: "vovo" typed without its accent is found in a book that has
\* "Vovó!".
C11_Witness ==
  /\ pc = "encoded"
  /\ engine = "ACCENT" /\ mode = "PLP"
  /\ bookText = <<"d","'","a"," ","V","o","v","ó","!">>
  /\ inputText = VovoPlain
  /\ encoded.success
  /\ encoded.text = <<"1", ":", "1", ":", "2">>

\* A plaintext escape: a bracket-wrapped token, or a token without ':'.
IsPlainToken(t) == t # <<>> /\ (IsBracketed(t) \/ ~includes(t, ":"))
\* What an escape stands for: the text between the brackets, the token itself
\* otherwise, '/' being the space separator in character mode only.
PlainTextOf(t) ==
  IF IsBracketed(t) THEN SubSeq(t, 2, Len(t) - 1)
  ELSE IF CharMode /\ t = <<"/">> THEN <<" ">>
  ELSE t

\* C12 (as claimed): a cipher text made of plaintext escapes decodes, token by
\* token, to the text between the brackets of a bracket-wrapped token and to
\* the token itself for a token without ':'; '/' is a separator in character
\* mode only.
C12_PlaintextEscapes ==
  pc = "decoded" =>
    LET toks == WordsOf(inputText)
    IN (toks # <<>> /\ \A i \in DOMAIN toks : IsPlainToken(toks[i])) =>
         /\ ~decoded.threw
         /\ decoded.text = Join([i \in DOMAIN toks |-> PlainTextOf(toks[i])],
                                IF CharMode THEN <<>> ELSE <<" ">>)

\* The fields of the decoded token, and the cipher text made of given fields.
InputFields == SplitColon(inputText)
TokenOf(fields) == Join(fields, <<":">>)
PageValues == CipherFields \cup {<<"9", "9">>, <<>>}

\* C13: in Line-Word-Char mode the decoding of P:L:W:C is the same for every
\* page field P, and the same as the decoding of the three-field L:W:C.
C13_DecorativePage ==
  (pc = "decoded" /\ CharMode /\ IsCoordinateToken(inputText) /\ Len(InputFields) = 4) =>
    /\ \A P \in PageValues :
         decodeMessage(engine, mode, TokenOf(<<P>> \o Tail(InputFields)), bookText) = decoded
    /\ decodeMessage(engine, mode, TokenOf(Tail(InputFields)), bookText) = decoded

\* C13's case: a four-field token with a page that is no number resolves the
\* first character of the book.
C13_Witness ==
  /\ pc = "decoded"
  /\ CharMode
  /\ bookText = <<"a">>
  /\ inputText = <<"x", ":", "1", ":", "1", ":", "1">>
  /\ decoded.text = <<"A">>

\* The text with every line separator ("\r\n", a lone "\r", "\n") written "\n".
RECURSIVE UnixLinesFrom(_, _)
UnixLinesFrom(s, i) ==
  IF i > Len(s) THEN <<>>
  ELSE IF s[i] = "\r" /\ i < Len(s) /\ s[i + 1] = "\n" THEN <<"\n">> \o UnixLinesFrom(s, i + 2)
  ELSE IF s[i] = "\r" THEN <<"\n">> \o UnixLinesFrom(s, i + 1)
  ELSE <<s[i]>> \o UnixLinesFrom(s, i + 1)
UnixLines(s) == UnixLinesFrom(s, 1)

\* C14 (as claimed): writing every line separator of the book as "\n" changes
\* neither the index nor what a cipher text decodes to.
C14_LineSeparators ==
  /\ pc = "indexed" => bookIndex = indexBook(engine, UnixLines(bookText), mode)
  /\ pc = "decoded" =>
       decoded = decodeMessage(engine, mode, encoded.text, UnixLines(bookText))

ParagraphMode == mode \in {"PLP", "DPLP"}
\* Every location of the index.
Locations == UNION {Range(bookIndex.map[k]) : k \in DOMAIN bookIndex.map}
IsBlank(line) == Trim(line) = <<>>
\* The number of blocks of the book: maximal runs of lines that are not blank.
BlockCount(text) ==
  LET lines == SplitLines(UnixLines(text))
  IN Cardinality({i \in DOMAIN lines :
                    ~IsBlank(lines[i]) /\ (i = 1 \/ IsBlank(lines[i - 1]))})
\* The blocks that hold a word the index keeps.
IndexedBlockCount(text) ==
  LET lines == SplitLines(UnixLines(text))
      starts == {i \in DOMAIN lines : ~IsBlank(lines[i]) /\ (i = 1 \/ IsBlank(lines[i - 1]))}
      InBlock(i, j) == i <= j /\ \A k \in i..j : ~IsBlank(lines[k])
  IN Cardinality({i \in starts :
       \E j \in DOMAIN lines :
         /\ InBlock(i, j)
         /\ \E w \in DOMAIN WordsOf(lines[j]) : KeyOf(engine, WordsOf(lines[j])[w]) # <<>>})

\* C15 (as claimed): in the paragraph modes the paragraphs are the blocks
\* between runs of blank lines, numbered from 1 with the empty leading and
\* trailing ones discarded: when every block holds an indexed word the
\* paragraph numbers of the index are exactly 1..number of blocks, and in each
\* paragraph the line numbers start at 1 (no location of a paragraph whose
\* first line holds an indexed word has a line number below 1).
C15_ParagraphNumbering ==
  (pc = "indexed" /\ ParagraphMode /\ ~bookIndex.threw
     /\ IndexedBlockCount(bookText) = BlockCount(bookText)) =>
    /\ {loc.paragraph : loc \in Locations} = 1..BlockCount(bookText)
    /\ \A loc \in Locations : loc.line >= 1 /\ loc.word >= 1

\* The raw word of the book a coordinate of a word mode names.
RawWordAt(e, coord, text) ==
  LET lines == IF e = "WO" THEN SplitLines(text)
               ELSE SplitLines(SplitParagraphs(text)[coord[1]])
      l == IF e = "WO" THEN coord[1] ELSE coord[2]
      w == IF e = "WO" THEN coord[2] ELSE coord[3]
  IN WordsOf(lines[l])[w]
\* A word from its first to its last letter or digit.
BoundaryTrimmed(word) ==
  LET at == {i \in DOMAIN word : IsLetterOrDigit(word[i])}
  IN IF at = {} THEN <<>>
     ELSE SubSeq(word, CHOOSE i \in at : \A j \in at : i <= j,
                       CHOOSE i \in at : \A j \in at : j <= i)

\* C16 (as claimed): in the word modes a coordinate that names a word of the
\* book decodes to that raw word from its first to its last letter or digit,
\* everything in between kept, in upper case.
C16_DisplayCleanup ==
  (DecodedCoordinate /\ ~CharMode /\ IntegerFields
     /\ InBook(engine, mode, InputCoordinate, bookText)) =>
    /\ ~decoded.threw
    /\ decoded.text =
         toUpperCase(BoundaryTrimmed(RawWordAt(engine, InputCoordinate, bookText)))

\* C17: in Line-Word-Char mode encode emits one token per character of the
\* message, joined by one space: "/" for a whitespace character, the character
\* itself for a character that is no letter or digit; decode maps "/" to one
\* space and concatenates the decoded tokens with nothing between them, so the
\* decoded text has one character per character of the message, a space at
\* each whitespace and the character itself at each punctuation character.
C17_CharacterMode ==
  /\ (pc = "encoded" /\ CharMode) =>
       /\ ~encoded.threw
       /\ LET outs == Outputs
          IN IF inputText = <<>> THEN encoded.text = <<>>
             ELSE /\ Len(outs) = Len(inputText)
                  /\ encoded.text = Join(outs, <<" ">>)
                  /\ \A i \in DOMAIN inputText :
                       /\ IsSpace(inputText[i]) => outs[i] = <<"/">>
                       /\ (~IsSpace(inputText[i]) /\ ~IsLetterOrDigit(inputText[i])) =>
                            outs[i] = <<inputText[i]>>
  /\ (pc = "decoded" /\ CharMode) =>
       /\ ~decoded.threw
       /\ Len(decoded.text) = Len(inputText)
       /\ \A i \in DOMAIN inputText :
            /\ IsSpace(inputText[i]) => decoded.text[i] = " "
            /\ (~IsSpace(inputText[i]) /\ ~IsLetterOrDigit(inputText[i])
                  /\ inputText[i] \notin {":", "/"}) =>
                 decoded.text[i] = inputText[i]

\* C17's case: a message with a space and a punctuation character, encoded
\* and decoded character by character.
C17_Witness ==
  /\ pc = "decoded"
  /\ CharMode
  /\ inputText = <<"B", "!", " ", "a">>
  /\ encoded.success
  /\ Outputs[2] = <<"!">> /\ Outputs[3] = <<"/">>
  /\ decoded.text = <<"B", "!", " ", "A">>

\* The characters a word contributes in Line-Word-Char mode: its letters,
\* digits and '_' (the class [\wÀ-ÿ]), in order.
IsIndexedChar(c) == IsLetterOrDigit(c) \/ c = "_"
IndexedChars(word) == SelectSeq(word, IsIndexedChar)
\* The locations Line-Word-Char mode is to hold for a book: one per character
\* of the key of each word, at the word's line, its position in the line and
\* the character's position in the key.
ExpectedCharLocations(text) ==
  LET lines == SplitLines(text)
  IN UNION { UNION { { [line |-> l, word |-> w, char |-> c,
                        content |-> <<LowerChar(IndexedChars(WordsOf(lines[l])[w])[c])>>] :
                       c \in DOMAIN IndexedChars(WordsOf(lines[l])[w]) } :
                     w \in DOMAIN WordsOf(lines[l]) } :
             l \in DOMAIN lines }
CharCoordinate(loc) ==
  Join(<<NumberToString(loc.line), NumberToString(loc.word), NumberToString(loc.char)>>,
       <<":">>)

\* C18: in Line-Word-Char mode the index holds exactly one location per
\* character of each word's key, at (line, word position, position in the
\* key), under the character as its key, whatever punctuation the raw word
\* has; decoding L:W:C returns that character in upper case.
C18_CharacterIndexing ==
  (pc = "indexed" /\ CharMode) =>
    /\ ~bookIndex.threw
    /\ Locations = ExpectedCharLocations(bookText)
    /\ \A k \in DOMAIN bookIndex.map : \A i \in DOMAIN bookIndex.map[k] :
         LET loc == bookIndex.map[k][i]
             back == decodeMessage(engine, mode, CharCoordinate(loc), bookText)
         IN /\ k = loc.content
            /\ ~back.threw
            /\ back.text = <<UpperChar(loc.content[1])>>
    /\ \A k \in DOMAIN bookIndex.map : \A i, j \in DOMAIN bookIndex.map[k] :
         i # j => bookIndex.map[k][i] # bookIndex.map[k][j]

\* C18's case: the 'a' of "d'a" is the second character of its word.
C18_Witness ==
  /\ pc = "indexed"
  /\ CharMode
  /\ bookText = <<"d","'","a"," ","V","o","v","ó","!">>
  /\ [line |-> 1, word |-> 1, char |-> 2, content |-> <<"a">>] \in Locations
  /\ [line |-> 1, word |-> 2, char |-> 4, content |-> <<"ó">>] \in Locations

\* The structural fields of a location, in the order of its mode.
LocationCoordinate(loc) ==
  IF mode = "WORD" THEN <<loc.line, loc.word>>
  ELSE IF mode = "OTTENDORF" THEN <<loc.line, loc.word, loc.char>>
  ELSE <<loc.paragraph, loc.line, loc.word>>

\* C19: the index has no empty key, and every location holds a non-empty
\* content and names a word of the book (so a line without words has no
\* location); encode emits no coordinate for an empty or whitespace-only token:
\* a blank message gives an empty cipher text, and in character mode the token
\* of a whitespace character has no ':'.
C19_NoEmptyTokens ==
  /\ (pc = "indexed" /\ ~bookIndex.threw) =>
       /\ <<>> \notin DOMAIN bookIndex.map
       /\ \A loc \in Locations :
            /\ loc.content # <<>>
            /\ InBook(engine, mode, LocationCoordinate(loc), bookText)
  /\ (pc = "encoded" /\ ~encoded.threw) =>
       /\ Trim(inputText) = <<>> => ~includes(encoded.text, ":")
       /\ (CharMode /\ inputText # <<>>) =>
            LET outs == Outputs
            IN /\ Len(outs) = Len(inputText)
               /\ \A i \in DOMAIN inputText :
                    IsSpace(inputText[i]) => ~includes(outs[i], ":")

\* C19's case: a book with a punctuation-only word and lines without words
\* has been indexed, and a message with a space encoded in character mode.
C19_Witness ==
  /\ pc = "encoded"
  /\ CharMode
  /\ bookText = <<"a","\r","\n","\r","\n","b","!"," ","-","-">>
  /\ inputText = <<"a", " ", "a">>
  /\ Cardinality(Locations) = 2
  /\ Outputs[2] = <<"/">>

\* C20 (as claimed): build_index returns an index for every book and mode; it
\* never throws.
C20_IndexTotal == pc = "indexed" => ~bookIndex.threw

\* The cipher text of one token decodes, under the mode of the call, to a text
\* with the token's key.
DecodesToToken(out, token) ==
  LET back == decodeMessage(engine, mode, out, bookText)
  IN /\ ~back.threw
     /\ back.text # <<>>
     /\ UnitKey(back.text) = UnitKey(token)

LastField(out) == SplitColon(out)[Len(SplitColon(out))]
Undefined == <<"u","n","d","e","f","i","n","e","d">>
\* The key of the word of the book at a line and a position in the line.
KeyAt(loc) == cleanWordKey(SplitSpace(Trim(SplitLines(bookText)[loc.line]))[loc.word])

WordPlaces ==
  IF engine = "WO"
  THEN LET lines == SplitLines(bookText)
       IN UNION { { [at |-> [line |-> l, word |-> w], raw |-> WordsOf(lines[l])[w]] :
                      w \in DOMAIN WordsOf(lines[l]) } :
                  l \in DOMAIN lines }
  ELSE LET paras == SplitParagraphs(bookText)
       IN UNION { UNION { { [at |-> [paragraph |-> p, line |-> l, word |-> w],
                             raw |-> WordsOf(SplitLines(paras[p])[l])[w]] :
                              w \in DOMAIN WordsOf(SplitLines(paras[p])[l]) } :
                          l \in DOMAIN SplitLines(paras[p]) } :
                  p \in DOMAIN paras }
\* The occurrences of a token's key in the book: the places of the words with
\* that key, and in character mode the places of the character in the keys of
\* the words.
OccurrencesOf(token) ==
  IF CharMode
  THEN { [line |-> loc.line, word |-> loc.word, char |-> loc.char] :
           loc \in { x \in ExpectedCharLocations(bookText) : x.content = UnitKey(token) } }
  ELSE { pl.at : pl \in { x \in WordPlaces : KeyOf(engine, x.raw) = UnitKey(token) } }
\* The draw that takes candidate k for token i and the first one elsewhere.
DrawOf(toks, i, k) == [j \in DOMAIN toks |-> IF j = i THEN k ELSE 1]
\* No token of the message makes encode throw.
EncodeReturns(toks) == CharMode \/ \A j \in DOMAIN toks : KeyOf(engine, toks[j]) \notin ProtoKeys

\* C23: the coordinate encode emits for a token with candidates is that of an
\* occurrence of the token's key in the book; the candidate list has one
\* location per occurrence, and every occurrence is the outcome of some draw
\* of the random selection.
C23_HomophonicCandidates ==
  /\ (pc = "encoded" /\ ~encoded.threw) =>
       LET toks == Tokens
           outs == Outputs
       IN \A i \in DOMAIN toks :
            (Candidates(toks[i]) # <<>> /\ Len(outs) = KeptCount(toks)) =>
              \E occ \in OccurrencesOf(toks[i]) :
                IsCoordinateFor(outs[PlaceOf(toks, i)], occ)
  /\ (pc = "indexed" /\ ~bookIndex.threw) =>
       LET toks == Tokens
           draws == PickSets(engine, mode, inputText, bookIndex)
       IN EncodeReturns(toks) =>
            \A i \in DOMAIN toks :
              LET cands == Candidates(toks[i])
                  occs == IF cands = <<>> THEN {} ELSE OccurrencesOf(toks[i])
              IN cands # <<>> =>
                   /\ Len(cands) = Cardinality(occs)
                   /\ \A occ \in occs :
                        \E k \in DOMAIN cands :
                          /\ FieldsOf(cands[k]) = FieldsOf(occ)
                          /\ DrawOf(toks, i, k) \in draws
                          /\ LET res == encodeMessage(engine, mode, inputText, bookIndex,
                                                      DrawOf(toks, i, k), dateString,
                                                      pageNumber)
                             IN /\ ~res.threw
                                /\ IsCoordinateFor(
                                     SplitSpace(res.text)[PlaceOf(toks, i)], occ)

\* C23's case: the second of the two occurrences of "a" has been drawn.
C23_Witness ==
  /\ pc = "encoded"
  /\ engine = "ACCENT" /\ mode = "PLP"
  /\ bookText = <<"a", " ", "a">>
  /\ inputText = <<"a">>
  /\ Cardinality(OccurrencesOf(<<"a">>)) = 2
  /\ random = <<2>>
  /\ encoded.text = <<"1", ":", "1", ":", "2">>

\* C24 (as claimed): every coordinate encode emits for a token with candidates
\* decodes, against the same book and mode, to a text that is not "?" and has
\* the key of the token, whatever the draws.
C24_HomophonicSoundness ==
  pc = "decoded" =>
    LET toks == Tokens
        outs == Outputs
    IN \A i \in DOMAIN toks :
         (Candidates(toks[i]) # <<>> /\ Len(outs) = KeptCount(toks)) =>
           LET back == decodeMessage(engine, mode, outs[PlaceOf(toks, i)], bookText)
           IN /\ ~back.threw
              /\ back.text # Question
              /\ DecodesToToken(outs[PlaceOf(toks, i)], toks[i])

\* A token encode emits as it is: a character that is neither whitespace nor a
\* letter or digit in character mode, a token with an empty key in the
\* paragraph modes.
EmittedVerbatim(token) ==
  IF CharMode THEN ~IsSpace(token[1]) /\ ~IsOttendorfChar(LowerChar(token[1]))
  ELSE token # <<>> /\ EmptyKey(token) /\ Kept(token)

\* C25 (as claimed): a token encode emits verbatim is in the cipher text as it
\* is, and decode gives it back as it is, whatever the token.
C25_PassThroughRoundTrip ==
  pc = "decoded" =>
    LET toks == Tokens
        outs == Outputs
    IN \A i \in DOMAIN toks :
         (EmittedVerbatim(toks[i]) /\ Len(outs) = KeptCount(toks)) =>
           /\ outs[PlaceOf(toks, i)] = toks[i]
           /\ ~DecodedAlone(toks[i]).threw
           /\ DecodedAlone(toks[i]).text = toks[i]

\* C22: while the application is mounted the index it holds was built from the
\* current book text under the current mode, and the result on display is
\* what the current state gives: nothing for a blank input, the encoding of
\* the input with the index of the current book and mode (for the draws
\* made), or the decoding of the input against the current book text.
C22_IndexFreshness ==
  pc = "mounted" =>
    /\ indexText = bookText
    /\ indexMode = mode
    /\ bookIndex = indexBook(engine, bookText, mode)
    /\ result =
         IF Trim(inputText) = <<>> THEN Null
         ELSE IF isEncoding
              THEN encodeMessage(engine, mode, inputText,
                                 indexBook(engine, bookText, mode), random,
                                 dateString, 1)
         ELSE decodeMessage(engine, mode, inputText, bookText)

\* C22's case: after a book edit and a mode switch the message is encoded
\* with the index of the new book under the new mode.
C22_Witness ==
  /\ pc = "mounted"
  /\ mode = "DPLP"
  /\ bookText = <<"a">>
  /\ inputText = <<"a">>
  /\ isEncoding
  /\ indexText = <<"a">> /\ indexMode = "DPLP"
  /\ result.text = <<"D","A","T","A",":","1",":","1",":","1">>

\* The book after an extraction that returned text, by the book at that time.
ExpectedBook(prev, text) ==
  IF prev = INITIAL_BOOK \/ \A i \in DOMAIN prev : IsSpace(prev[i]) THEN text
  ELSE prev \o PageSeparator \o text

\* C27: the step that completes an extraction replaces the book by the
\* extracted text when the book is, at that time, the placeholder or blank,
\* and otherwise appends the page separator and the text to the book as it is
\* at that time; the step that fails an extraction leaves the book unchanged.
C27_OcrCompletion ==
  [][ /\ (extraction = "pending" /\ extraction' = "fulfilled") =>
           \E text \in OcrTexts : bookText' = ExpectedBook(bookText, text)
      /\ (extraction = "pending" /\ extraction' = "rejected") =>
           bookText' = bookText ]_vars

\* C27's case: the extraction started on the placeholder, the user typed "a"
\* while it was in flight, and its text came after what the user typed.
C27_Witness ==
  /\ extraction = "fulfilled"
  /\ captured = INITIAL_BOOK
  /\ bookText = <<"a">> \o PageSeparator \o <<"c">>


\* The reasons extractTextFromImage has to give up on the Vision endpoint.
VisionFailures == {"network", "abort", "status", "notext"}

\* C26: OCR fallback order.  The first endpoint extractTextFromImage calls is
\* always Vision; Gemini is called only second, only with a key, and only
\* after the Vision attempt failed by a network error, the abort of the 8 s
\* timer, a non-OK status or an answer without text; a call that ended with
\* no Vision failure returned the non-empty text of Vision's OK answer and
\* never called Gemini; a Vision failure with no Gemini key rejects the call
\* with an error and Gemini is not called.
C26_OcrFallbackOrder ==
  /\ pc \in {"fetch", "body", "gemini"} => calls # <<>>
  /\ calls \in {<<>>, <<"vision">>, <<"vision", "gemini">>}
  /\ calls = <<"vision", "gemini">> =>
       /\ visionError \in VisionFailures
       /\ geminiKey # ""
  /\ visionError = "abort" => timer = "fired"
  /\ visionError = "status" => response.status \notin {0, 200}
  /\ visionError = "notext" => response = [status |-> 200, text |-> <<>>]
  /\ (calls # <<>> /\ visionError = "none" /\ pc \in {"returned", "rejected"}) =>
       /\ pc = "returned"
       /\ response.status = 200 /\ response.text # <<>>
       /\ returned = [kind |-> "text", text |-> response.text]
       /\ calls = <<"vision">>
  /\ (visionError \in VisionFailures /\ geminiKey = "") =>
       /\ pc = "rejected"
       /\ returned.kind = "error"
       /\ calls = <<"vision">>
  /\ (visionError \in VisionFailures /\ geminiKey # "") =>
       /\ pc \in {"gemini", "returned", "rejected"}
       /\ calls = <<"vision", "gemini">>

\* The Vision request was aborted by the timer and Gemini's text came back.
C26_Witness ==
  /\ pc = "returned"
  /\ visionError = "abort"
  /\ calls = <<"vision", "gemini">>
  /\ returned = [kind |-> "text", text |-> <<"g">>]

====
